---------------------------- MODULE Spec2Model ----------------------------
(***************************************************************************)
(* Model of the indicator engines of auto-technical-analysis:              *)
(* Ichimoku (ichimoku.py), RSI (rsi.py), WilliamsFractals (fractals.py)    *)
(* and MACross (ma_cross.py), all built on one shared pandas DataFrame.    *)
(*                                                                         *)
(* Conventions.                                                            *)
(*  - A pandas Series is a sequence; position i of the sequence is the bar *)
(*    with pandas label i-1 (the DataFrame has a RangeIndex).  Results     *)
(*    that the code reports as index labels are reported 0-based.          *)
(*  - A float is an exact rational [k |-> "num", n, d] in lowest terms,    *)
(*    NaN is [k |-> "nan"], Python's None is [k |-> "none"].  Comparisons  *)
(*    with NaN are false, as in IEEE 754.  Float rounding is not modelled. *)
(*  - The f-string descriptions of the signals carry no information beyond *)
(*    the values and the tag and are left out.                             *)
(*  - pandas is the 1.x line, which the code requires                      *)
(*    (Index.get_loc(..., method='nearest') is gone in 2.0).               *)
(***************************************************************************)
EXTENDS Integers, Sequences, FiniteSets, TLC

VARIABLES df, ichimoku, rsi, fractals, ma_cross, last

vars == <<df, ichimoku, rsi, fractals, ma_cross, last>>

(***************************************************************************)
(* Bounds of the model.                                                    *)
(***************************************************************************)
\* MACross runs: series length, price levels, MA periods
MaxLenMA == 5

MaxPriceMA == 2

MaxPeriod == 3

\* Ichimoku runs: series length, price levels, periods, displacement
MaxLenIchi == 4

MaxPriceIchi == 2

MaxPeriodIchi == 3

MaxDisplacement == 3

\* RSI runs: series length, price levels, Wilder length, smoothing length
MaxLenRSI == 6

MaxPriceRSI == 3

MaxRsiLength == 2

MaxSmoothing == 2

\* WilliamsFractals runs: series length, price levels, half-window,
\* instances built on the one DataFrame
MaxLenWF == 5

MaxPriceWF == 2

MaxHalfWindow == 2

MaxFractals == 2

\* longest alternating series given to WilliamsFractals
MaxLenZigzag == 13

(***************************************************************************)
(* Numbers.                                                                *)
(***************************************************************************)
Abs(x) == IF x < 0 THEN -x ELSE x

RECURSIVE GCD(_, _)
GCD(a, b) == IF b = 0 THEN a ELSE GCD(b, a % b)

Num(n, d) ==
    LET s == IF d < 0 THEN -1 ELSE 1
        g == GCD(Abs(n), Abs(d))
    IN  [k |-> "num", n |-> (s * n) \div g, d |-> (s * d) \div g]

NaN == [k |-> "nan", n |-> 0, d |-> 1]

None == [k |-> "none", n |-> 0, d |-> 1]

IsNum(x) == x.k = "num"

Int2Val(x) == [k |-> "num", n |-> x, d |-> 1]

\* the order of a/b and c/d for b, d > 0, as -1, 0 or 1, by comparing the
\* integer parts and then the reciprocals of the fractional parts
RECURSIVE CmpFrac(_, _, _, _)
CmpFrac(a, b, c, d) ==
    LET qa == a \div b
        qc == c \div d
        ra == a - qa * b
        rc == c - qc * d
    IN  IF qa < qc THEN -1
        ELSE IF qa > qc THEN 1
        ELSE IF ra = 0 /\ rc = 0 THEN 0
        ELSE IF ra = 0 THEN -1
        ELSE IF rc = 0 THEN 1
        ELSE CmpFrac(d, rc, b, ra)

Cmp(a, b) == CmpFrac(a.n, a.d, b.n, b.d)

Gt(a, b) == IsNum(a) /\ IsNum(b) /\ Cmp(a, b) = 1

Lt(a, b) == Gt(b, a)

Ge(a, b) == IsNum(a) /\ IsNum(b) /\ Cmp(a, b) >= 0

Le(a, b) == Ge(b, a)

Eq(a, b) == IsNum(a) /\ IsNum(b) /\ a.n = b.n /\ a.d = b.d

Add(a, b) ==
    IF IsNum(a) /\ IsNum(b)
    THEN LET g == GCD(a.d, b.d)
         IN  Num(a.n * (b.d \div g) + b.n * (a.d \div g), (a.d \div g) * b.d)
    ELSE NaN

Sub(a, b) ==
    IF IsNum(a) /\ IsNum(b)
    THEN LET g == GCD(a.d, b.d)
         IN  Num(a.n * (b.d \div g) - b.n * (a.d \div g), (a.d \div g) * b.d)
    ELSE NaN

Mul(a, b) ==
    IF IsNum(a) /\ IsNum(b) THEN Num(a.n * b.n, a.d * b.d) ELSE NaN

\* a / b for b # 0; the callers treat a zero divisor themselves
Div(a, b) ==
    IF IsNum(a) /\ IsNum(b) /\ b.n # 0 THEN Num(a.n * b.d, a.d * b.n) ELSE NaN

\* the sequence <<f[1], ..., f[n]>>, built element by element
RECURSIVE BuildFrom(_, _, _)
BuildFrom(f, n, acc) ==
    IF Len(acc) >= n THEN acc ELSE BuildFrom(f, n, Append(acc, f[Len(acc) + 1]))

Build(f, n) == BuildFrom(f, n, << >>)

ToVals(s) == Build([i \in 1..Len(s) |-> Int2Val(s[i])], Len(s))

\* s.iloc[-k] for 1 <= k <= len(s)
ILocNeg(s, k) == s[Len(s) - k + 1]

(***************************************************************************)
(* pandas windowed primitives.                                             *)
(***************************************************************************)
\* the positions of the trailing window of size w that ends at i
Window(i, w) == (i - w + 1)..i

WindowOk(s, i, w) ==
    /\ i - w + 1 >= 1
    /\ i <= Len(s)
    /\ \A j \in Window(i, w) : IsNum(s[j])

RECURSIVE SumVals(_, _, _)
SumVals(s, lo, hi) == IF lo > hi THEN Int2Val(0) ELSE Add(s[lo], SumVals(s, lo + 1, hi))

MaxOf(s, i, w) ==
    CHOOSE v \in {s[j] : j \in Window(i, w)} :
        \A j \in Window(i, w) : Ge(v, s[j])

MinOf(s, i, w) ==
    CHOOSE v \in {s[j] : j \in Window(i, w)} :
        \A j \in Window(i, w) : Le(v, s[j])

\* s.rolling(window=w).mean(), min_periods = w
RollingMean(s, w) ==
    Build([i \in 1..Len(s) |->
        IF WindowOk(s, i, w) THEN Div(SumVals(s, i - w + 1, i), Int2Val(w)) ELSE NaN], Len(s))

\* s.rolling(window=w).max() and .min()
RollingMax(s, w) ==
    Build([i \in 1..Len(s) |-> IF WindowOk(s, i, w) THEN MaxOf(s, i, w) ELSE NaN], Len(s))

RollingMin(s, w) ==
    Build([i \in 1..Len(s) |-> IF WindowOk(s, i, w) THEN MinOf(s, i, w) ELSE NaN], Len(s))

\* center=True shifts the trailing result back by (w - 1) // 2 positions
CenterOffset(w) == (w - 1) \div 2

RollingMaxCentered(s, w) ==
    Build([i \in 1..Len(s) |->
        IF WindowOk(s, i + CenterOffset(w), w)
        THEN MaxOf(s, i + CenterOffset(w), w) ELSE NaN], Len(s))

RollingMinCentered(s, w) ==
    Build([i \in 1..Len(s) |->
        IF WindowOk(s, i + CenterOffset(w), w)
        THEN MinOf(s, i + CenterOffset(w), w) ELSE NaN], Len(s))

\* one step of s.ewm(alpha=an/ad, adjust=False).mean(): the first
\* observation seeds the mean, then alpha*cur + (1 - alpha)*previous
EwmStep(prev, cur, an, ad) ==
    IF ~IsNum(prev) THEN cur
    ELSE IF ~IsNum(cur) THEN prev
    ELSE Add(Mul(Num(an, ad), cur), Mul(Num(ad - an, ad), prev))

RECURSIVE EwmFrom(_, _, _, _)
EwmFrom(s, acc, an, ad) ==
    IF Len(acc) = Len(s) THEN acc
    ELSE EwmFrom(s, Append(acc, EwmStep(acc[Len(acc)], s[Len(acc) + 1], an, ad)), an, ad)

Ewm(s, an, ad) == IF Len(s) = 0 THEN << >> ELSE EwmFrom(s, <<s[1]>>, an, ad)

(***************************************************************************)
(* The shared DataFrame.                                                   *)
(***************************************************************************)
NoColumn == << >>

NoObject == [cls |-> "none"]

NoCall == [op |-> "none"]

\* how many times in a row the call (op, id, price) has now been made, up to 2
Repeat(op, id, price) ==
    IF last.op = op /\ last.id = id /\ last.price = price THEN 2 ELSE 1

\* df = pd.DataFrame(ohlcv, columns=[...]) : no fractal columns yet
NewFrame(high, low, close) ==
    [high |-> high, low |-> low, close |-> close,
     fractal_up |-> NoColumn, fractal_down |-> NoColumn]

\* bars of n periods with high in 1..top and low equal to high or one below
Bars(n, top) ==
    {b \in [high : [1..n -> 1..top], low : [1..n -> 0..top]] :
        \A i \in 1..n : b.low[i] \in {b.high[i] - 1, b.high[i]}}

NoEngines ==
    /\ ichimoku = NoObject
    /\ rsi = NoObject
    /\ fractals = << >>
    /\ ma_cross = NoObject
    /\ last = NoCall

(***************************************************************************)
(* MACross (ma_cross.py).                                                  *)
(***************************************************************************)
MATypes == {"SMA", "EMA"}

MAPeriods == 1..MaxPeriod

\* the simple average taken over the bars available when the window is
\* not full (min_periods=1)
MACross_calculate_partial(close, period, ma_type) ==
    IF ma_type = "SMA"
    THEN LET c == ToVals(close)
         IN  Build([i \in 1..Len(c) |->
                      IF i >= period THEN Div(SumVals(c, i - period + 1, i), Int2Val(period))
                      ELSE Div(SumVals(c, 1, i), Int2Val(i))], Len(c))
    ELSE Ewm(ToVals(close), 2, period + 1)

\* MACross.calculate
MACross_calculate(close, period, ma_type) ==
    IF ma_type = "SMA"
    THEN RollingMean(ToVals(close), period)
    ELSE Ewm(ToVals(close), 2, period + 1)

\* MACross.__init__
MACross_init(d, fast, slow, long, ma_type) ==
    [cls |-> "MACross",
     fast_ma_period |-> fast, slow_ma_period |-> slow, long_ma_period |-> long,
     ma_type |-> ma_type,
     ma_fast |-> MACross_calculate(d.close, fast, ma_type),
     ma_slow |-> MACross_calculate(d.close, slow, ma_type),
     ma_long |-> MACross_calculate(d.close, long, ma_type)]

\* MACross.get_current_values
MACross_get_current_values(self) ==
    [ma_fast |-> ILocNeg(self.ma_fast, 1),
     ma_slow |-> ILocNeg(self.ma_slow, 1),
     ma_long |-> ILocNeg(self.ma_long, 1)]

\* ((price - ma) / price) * 100
PctOf(x, base) == Mul(Div(x, base), Int2Val(100))

\* MACross._analyze_ma_set
MACross_analyze_ma_set(price, fast_ma, slow_ma) ==
    [cross_status |-> IF Gt(fast_ma, slow_ma) THEN "BULLISH" ELSE "BEARISH",
     price_position |->
        IF Gt(price, fast_ma) /\ Gt(price, slow_ma) THEN "ABOVE_BOTH"
        ELSE IF Lt(price, fast_ma) /\ Lt(price, slow_ma) THEN "BELOW_BOTH"
        ELSE "BETWEEN",
     from_fast |-> PctOf(Sub(price, fast_ma), price),
     from_slow |-> PctOf(Sub(price, slow_ma), price)]

\* ((a - b) / b) * 100 > 0 on numpy floats: a zero divisor gives +-inf or
\* NaN without raising, and NaN compares false
RelDiffPositive(a, b) ==
    /\ IsNum(a)
    /\ IsNum(b)
    /\ IF b.n = 0 THEN Gt(a, b)
       ELSE (Gt(a, b) /\ b.n > 0) \/ (Lt(a, b) /\ b.n < 0)

SignOf(positive) == IF positive THEN 1 ELSE -1

\* the weighted score with a failed comparison counted as 0 instead of -1
MACross_weighted_score_unsigned(price, values) ==
    Num(  3 * (IF RelDiffPositive(values.ma_fast, values.ma_slow) THEN 1 ELSE 0)
        + 3 * (IF RelDiffPositive(values.ma_slow, values.ma_long) THEN 1 ELSE 0)
        + 4 * (IF RelDiffPositive(price, values.ma_long) THEN 1 ELSE 0), 10)

\* weighted_score of MACross._analyze_market_structure, weights 0.3/0.3/0.4
MACross_weighted_score(price, values) ==
    Num(  3 * SignOf(RelDiffPositive(values.ma_fast, values.ma_slow))
        + 3 * SignOf(RelDiffPositive(values.ma_slow, values.ma_long))
        + 4 * SignOf(RelDiffPositive(price, values.ma_long)), 10)

\* the chain with the strong bands starting at 0.3 instead of 0.5
MACross_structure_signal_narrow(weighted_score) ==
    IF Gt(weighted_score, Num(3, 10)) THEN "STRONG_BULLISH"
    ELSE IF Lt(weighted_score, Num(-3, 10)) THEN "STRONG_BEARISH"
    ELSE IF Gt(weighted_score, Int2Val(0)) THEN "BULLISH_BIAS"
    ELSE "BEARISH_BIAS"

\* the if/elif chain of MACross._analyze_market_structure
MACross_structure_signal(weighted_score) ==
    IF Gt(weighted_score, Num(1, 2)) THEN "STRONG_BULLISH"
    ELSE IF Lt(weighted_score, Num(-1, 2)) THEN "STRONG_BEARISH"
    ELSE IF Gt(weighted_score, Int2Val(0)) THEN "BULLISH_BIAS"
    ELSE "BEARISH_BIAS"

\* MACross._analyze_market_structure; the score is kept next to the tag
\* (the code prints it into the description)
MACross_analyze_market_structure(price, values) ==
    [signal |-> MACross_structure_signal(MACross_weighted_score(price, values)),
     weighted_score |-> MACross_weighted_score(price, values)]

\* MACross.analyze: the returned (values, analysis)
MACross_analyze(self, price) ==
    LET values == MACross_get_current_values(self)
    IN  [values |-> values,
         set1_short_term |->
            MACross_analyze_ma_set(price, values.ma_fast, values.ma_slow),
         set2_long_term |->
            MACross_analyze_ma_set(price, values.ma_slow, values.ma_long),
         market_structure |-> MACross_analyze_market_structure(price, values)]

\* (a > b) elementwise: False where either side is NaN
AboveSeries(a, b) == Build([i \in 1..Len(a) |-> Gt(a[i], b[i])], Len(a))

\* Series.diff() of a boolean Series: pandas keeps the dtype a boolean
\* can live in (object) and computes cur XOR prev; the first entry is NaN.
\* The entry is encoded 1 for True, 0 for False and for the leading NaN.
BoolDiff(above) ==
    Build([i \in 1..Len(above) |->
        IF i = 1 THEN 0 ELSE IF above[i] # above[i - 1] THEN 1 ELSE 0], Len(above))

\* the positions kept by .iloc[-lookback:] (lookback >= 1)
TailPositions(n, lookback) == {i \in 1..n : i > n - lookback}

NoIndex == -1

\* recent[recent == target].index[-1] if not empty else None, as a label
LastLabelEqual(diffs, lookback, target) ==
    LET hits == {i \in TailPositions(Len(diffs), lookback) : diffs[i] = target}
    IN  IF hits = {} THEN NoIndex
        ELSE (CHOOSE i \in hits : \A j \in hits : j <= i) - 1

\* one pair of MACross.get_cross_history
MACross_pair_history(faster, slower, lookback) ==
    LET crosses == BoolDiff(AboveSeries(faster, slower))
    IN  [last_golden_cross |-> LastLabelEqual(crosses, lookback, 1),
         last_death_cross |-> LastLabelEqual(crosses, lookback, -1)]

\* MACross.get_cross_history
MACross_get_cross_history(self, lookback) ==
    [fast_slow |-> MACross_pair_history(self.ma_fast, self.ma_slow, lookback),
     slow_long |-> MACross_pair_history(self.ma_slow, self.ma_long, lookback)]

PricesMA == 1..MaxPriceMA

LookbacksMA == 1..MaxLenMA

\* ma_cross = MACross(df, fast_periods=[fast, _], slow_periods=[slow, long], ma_type)
NewMACross(fast, slow, long, ma_type) ==
    /\ ma_cross = NoObject
    /\ ma_cross' = MACross_init(df, fast, slow, long, ma_type)
    /\ last' = [op |-> "MACross", id |-> 1, raised |-> FALSE]
    /\ UNCHANGED <<df, ichimoku, rsi, fractals>>

\* ma_cross.analyze(current_price)
AnalyzeMACross(p) ==
    /\ ma_cross # NoObject
    /\ last' = [op |-> "MACross.analyze", id |-> 1, price |-> p,
                rep |-> Repeat("MACross.analyze", 1, p), raised |-> FALSE,
                out |-> MACross_analyze(ma_cross, Int2Val(p))]
    /\ UNCHANGED <<df, ichimoku, rsi, fractals, ma_cross>>

\* ma_cross.get_cross_history(lookback)
CrossHistoryMACross(lookback) ==
    /\ ma_cross # NoObject
    /\ last' = [op |-> "MACross.get_cross_history", id |-> 1,
                lookback |-> lookback, raised |-> FALSE,
                out |-> MACross_get_cross_history(ma_cross, lookback)]
    /\ UNCHANGED <<df, ichimoku, rsi, fractals, ma_cross>>

\* bars whose close is drawn freely (high = low = close)
InitMA ==
    /\ \E n \in 1..MaxLenMA : \E c \in [1..n -> PricesMA] : df = NewFrame(c, c, c)
    /\ NoEngines

NextMA ==
    \/ \E f, s, l \in MAPeriods : \E t \in MATypes : NewMACross(f, s, l, t)
    \/ \E p \in PricesMA : AnalyzeMACross(p)
    \/ \E k \in LookbacksMA : CrossHistoryMACross(k)

SpecMA == InitMA /\ [][NextMA]_vars

(***************************************************************************)
(* Ichimoku (ichimoku.py).                                                 *)
(***************************************************************************)
\* (rolling max of high + rolling min of low) / 2 over one period
Midpoint(d, period) ==
    LET hi == RollingMax(ToVals(d.high), period)
        lo == RollingMin(ToVals(d.low), period)
    IN  Build([i \in 1..Len(d.high) |-> Div(Add(hi[i], lo[i]), Int2Val(2))], Len(d.high))

\* Ichimoku.__init__ and Ichimoku.calculate
Ichimoku_init(d, tenkan_period, kijun_period, senkou_b_period, displacement) ==
    LET tenkan == Midpoint(d, tenkan_period)
        kijun == Midpoint(d, kijun_period)
    IN  [cls |-> "Ichimoku",
         tenkan_period |-> tenkan_period, kijun_period |-> kijun_period,
         senkou_b_period |-> senkou_b_period, displacement |-> displacement,
         tenkan |-> tenkan,
         kijun |-> kijun,
         senkou_span_a |->
            Build([i \in 1..Len(d.high) |-> Div(Add(tenkan[i], kijun[i]), Int2Val(2))], Len(d.high)),
         senkou_span_b |-> Midpoint(d, senkou_b_period)]

\* series.iloc[-displacement] if len(series) > displacement else None
CurrentSpan(series, displacement) ==
    IF Len(series) > displacement THEN ILocNeg(series, displacement) ELSE None

\* Ichimoku.get_current_values
Ichimoku_get_current_values(self) ==
    [tenkan |-> ILocNeg(self.tenkan, 1),
     kijun |-> ILocNeg(self.kijun, 1),
     current_span_a |-> CurrentSpan(self.senkou_span_a, self.displacement),
     current_span_b |-> CurrentSpan(self.senkou_span_b, self.displacement),
     future_span_a |-> ILocNeg(self.senkou_span_a, 1),
     future_span_b |-> ILocNeg(self.senkou_span_b, 1)]

\* Python's max(a, b) and min(a, b) on floats: a unless b compares beyond it
PyMax(a, b) == IF Gt(b, a) THEN b ELSE a

PyMin(a, b) == IF Lt(b, a) THEN b ELSE a

\* max(None, None) raises TypeError
Ichimoku_analyze_raises(self) ==
    LET values == Ichimoku_get_current_values(self)
    IN  values.current_span_a = None \/ values.current_span_b = None

\* Ichimoku.analyze: the returned (values, analysis)
Ichimoku_analyze(self, price) ==
    LET values == Ichimoku_get_current_values(self)
        cloud_top == PyMax(values.current_span_a, values.current_span_b)
        cloud_bottom == PyMin(values.current_span_a, values.current_span_b)
    IN  [values |-> values,
         price_vs_cloud |->
            IF Gt(price, cloud_top) THEN "BULLISH"
            ELSE IF Lt(price, cloud_bottom) THEN "BEARISH"
            ELSE "NEUTRAL",
         future_cloud |->
            IF Gt(values.future_span_a, values.future_span_b)
            THEN "BULLISH" ELSE "BEARISH",
         tk_cross |->
            IF Gt(values.tenkan, values.kijun) THEN "BULLISH" ELSE "BEARISH"]

PeriodsIchi == 1..MaxPeriodIchi

Displacements == 1..MaxDisplacement

PricesIchi == 1..MaxPriceIchi

\* ichimoku = Ichimoku(df, t, k, b, disp)
NewIchimoku(t, k, b, disp) ==
    /\ ichimoku = NoObject
    /\ ichimoku' = Ichimoku_init(df, t, k, b, disp)
    /\ last' = [op |-> "Ichimoku", id |-> 1, raised |-> FALSE]
    /\ UNCHANGED <<df, rsi, fractals, ma_cross>>

\* ichimoku.get_current_values()
ValuesIchimoku ==
    /\ ichimoku # NoObject
    /\ last' = [op |-> "Ichimoku.get_current_values", id |-> 1, raised |-> FALSE,
                out |-> Ichimoku_get_current_values(ichimoku)]
    /\ UNCHANGED <<df, ichimoku, rsi, fractals, ma_cross>>

\* ichimoku.analyze(current_price)
AnalyzeIchimoku(p) ==
    /\ ichimoku # NoObject
    /\ last' = IF Ichimoku_analyze_raises(ichimoku)
               THEN [op |-> "Ichimoku.analyze", id |-> 1, price |-> p,
                     rep |-> Repeat("Ichimoku.analyze", 1, p), raised |-> TRUE]
               ELSE [op |-> "Ichimoku.analyze", id |-> 1, price |-> p,
                     rep |-> Repeat("Ichimoku.analyze", 1, p), raised |-> FALSE,
                     out |-> Ichimoku_analyze(ichimoku, Int2Val(p))]
    /\ UNCHANGED <<df, ichimoku, rsi, fractals, ma_cross>>

\* bars drawn freely (close = high)
InitIchi ==
    /\ \E n \in 1..MaxLenIchi : \E b \in Bars(n, MaxPriceIchi) :
          df = NewFrame(b.high, b.low, b.high)
    /\ NoEngines

NextIchi ==
    \/ \E t, k, b \in PeriodsIchi : \E disp \in Displacements : NewIchimoku(t, k, b, disp)
    \/ ValuesIchimoku
    \/ \E p \in PricesIchi : AnalyzeIchimoku(p)

SpecIchi == InitIchi /\ [][NextIchi]_vars

(***************************************************************************)
(* Claims about Ichimoku.                                                  *)
(***************************************************************************)
\* C5: on a series no longer than the displacement, get_current_values
\* returns None for both current spans, and analyze still completes
\* without raising, returning a result that lacks only the
\* price-vs-cloud signal.
C5_ShortSeriesPartialResult ==
    (ichimoku # NoObject /\ Len(df.high) <= ichimoku.displacement) =>
        /\ last.op = "Ichimoku.get_current_values" =>
              /\ last.out.current_span_a = None
              /\ last.out.current_span_b = None
        /\ last.op = "Ichimoku.analyze" => ~last.raised

\* C6: for a series longer than the displacement, the current spans are
\* the span values `displacement' bars before the most recent bar
\* (label L-1-displacement) and the future spans those at the most recent
\* bar (label L-1).
C6_CurrentCloudDisplacementBarsBack ==
    (last.op = "Ichimoku.get_current_values"
        /\ Len(df.high) > ichimoku.displacement) =>
        LET L == Len(df.high)
            displacement == ichimoku.displacement
        IN  /\ last.out.current_span_a = ichimoku.senkou_span_a[(L - 1 - displacement) + 1]
            /\ last.out.current_span_b = ichimoku.senkou_span_b[(L - 1 - displacement) + 1]
            /\ last.out.future_span_a = ichimoku.senkou_span_a[(L - 1) + 1]
            /\ last.out.future_span_b = ichimoku.senkou_span_b[(L - 1) + 1]

(***************************************************************************)
(* WilliamsFractals (fractals.py).                                         *)
(***************************************************************************)
\* the same with a strict comparison against the neighbours, which drops
\* the bars of a plateau
FractalUpColumn_strict(high, n) ==
    LET h == ToVals(high)
        m == RollingMaxCentered(h, 2 * n + 1)
    IN  Build([i \in 1..Len(h) |->
                 IF /\ Eq(h[i], m[i])
                    /\ \A j \in (i - n)..(i + n) : j # i => Lt(h[j], h[i])
                 THEN h[i] ELSE NaN], Len(h))

\* np.where(col == col.rolling(window=2n+1, center=True).max(), col, nan)
FractalUpColumn(high, n) ==
    LET h == ToVals(high)
        m == RollingMaxCentered(h, 2 * n + 1)
    IN  Build([i \in 1..Len(h) |-> IF Eq(h[i], m[i]) THEN h[i] ELSE NaN], Len(h))

FractalDownColumn(low, n) ==
    LET l == ToVals(low)
        m == RollingMinCentered(l, 2 * n + 1)
    IN  Build([i \in 1..Len(l) |-> IF Eq(l[i], m[i]) THEN l[i] ELSE NaN], Len(l))

\* Series.dropna().tolist()
RECURSIVE DropNa(_)
DropNa(s) ==
    IF s = << >> THEN << >>
    ELSE IF IsNum(Head(s)) THEN <<Head(s)>> \o DropNa(Tail(s))
    ELSE DropNa(Tail(s))

\* .tail(k)
TailOf(s, k) == IF Len(s) <= k THEN s ELSE SubSeq(s, Len(s) - k + 1, Len(s))

\* .dropna().iloc[-1] if not empty else None
LastOrNone(s) == IF DropNa(s) = << >> THEN None ELSE ILocNeg(DropNa(s), 1)

RecentKept == 5

SequenceLen == 10

\* WilliamsFractals.calculate: the two columns it stores in self.df
WilliamsFractals_calculate(d, n) ==
    [d EXCEPT !.fractal_up = FractalUpColumn(d.high, n),
              !.fractal_down = FractalDownColumn(d.low, n)]

\* WilliamsFractals.__init__ and the fields calculate caches on the instance
WilliamsFractals_init(d, n) ==
    LET nd == WilliamsFractals_calculate(d, n)
    IN  [cls |-> "WilliamsFractals", period |-> n,
         last_up_fractal |-> LastOrNone(nd.fractal_up),
         last_down_fractal |-> LastOrNone(nd.fractal_down),
         recent_up_fractals |-> TailOf(DropNa(nd.fractal_up), RecentKept),
         recent_down_fractals |-> TailOf(DropNa(nd.fractal_down), RecentKept)]

\* WilliamsFractals.get_current_values
WilliamsFractals_get_current_values(self) ==
    [last_up_fractal |-> self.last_up_fractal,
     last_down_fractal |-> self.last_down_fractal,
     recent_up_fractals |-> self.recent_up_fractals,
     recent_down_fractals |-> self.recent_down_fractals,
     up_fractal_count |-> Len(self.recent_up_fractals),
     down_fractal_count |-> Len(self.recent_down_fractals)]

\* Python truth value of a float or None: None and 0.0 are false
Truthy(v) == IsNum(v) /\ v.n # 0

Absent == "ABSENT"

\* a backward scan that does not stop at the tenth fractal
RECURSIVE ScanFractals_unbounded(_, _, _, _)
ScanFractals_unbounded(up, down, i, acc) ==
    IF i >= Len(up) THEN acc
    ELSE IF IsNum(ILocNeg(up, i))
         THEN ScanFractals_unbounded(up, down, i + 1, Append(acc, "up"))
    ELSE IF IsNum(ILocNeg(down, i))
         THEN ScanFractals_unbounded(up, down, i + 1, Append(acc, "down"))
    ELSE ScanFractals_unbounded(up, down, i + 1, acc)

\* the backward scan of WilliamsFractals.analyze: i runs over range(1, len(df)),
\* the bar read is .iloc[-i]
RECURSIVE ScanFractals(_, _, _, _)
ScanFractals(up, down, i, acc) ==
    IF i >= Len(up) \/ Len(acc) = SequenceLen THEN acc
    ELSE IF IsNum(ILocNeg(up, i)) THEN ScanFractals(up, down, i + 1, Append(acc, "up"))
    ELSE IF IsNum(ILocNeg(down, i)) THEN ScanFractals(up, down, i + 1, Append(acc, "down"))
    ELSE ScanFractals(up, down, i + 1, acc)

PadNone(acc) == acc \o [i \in 1..(SequenceLen - Len(acc)) |-> "none"]

CountOf(s, tok) == Cardinality({i \in 1..Len(s) : s[i] = tok})

Dominance(s) ==
    IF CountOf(s, "up") > CountOf(s, "down") THEN "UP"
    ELSE IF CountOf(s, "down") > CountOf(s, "up") THEN "DOWN"
    ELSE "NONE"

\* WilliamsFractals.analyze: the returned (values, analysis); the fractal
\* columns are read from self.df at the time of the call
WilliamsFractals_analyze(self, d, price) ==
    LET values == WilliamsFractals_get_current_values(self)
        both == Truthy(values.last_up_fractal) /\ Truthy(values.last_down_fractal)
        ru == values.recent_up_fractals
        rd == values.recent_down_fractals
        up_trend == Gt(ILocNeg(ru, 1), ru[1])
        down_trend == Gt(ILocNeg(rd, 1), rd[1])
        seq == PadNone(ScanFractals(d.fractal_up, d.fractal_down, 1, << >>))
    IN  [values |-> values,
         position |->
            IF ~both THEN Absent
            ELSE IF Gt(price, values.last_up_fractal) THEN "BREAKOUT"
            ELSE IF Lt(price, values.last_down_fractal) THEN "BREAKDOWN"
            ELSE "RANGE",
         fractal_trend |->
            IF ~(Len(ru) >= 2 /\ Len(rd) >= 2) THEN Absent
            ELSE IF up_trend /\ down_trend THEN "UPTREND"
            ELSE IF ~up_trend /\ ~down_trend THEN "DOWNTREND"
            ELSE "MIXED",
         to_resistance |->
            IF both THEN PctOf(Sub(values.last_up_fractal, price), price) ELSE None,
         to_support |->
            IF both THEN PctOf(Sub(price, values.last_down_fractal), price) ELSE None,
         sequence |-> seq,
         dominance |-> Dominance(seq)]

HalfWindows == 1..MaxHalfWindow

PricesWF == 1..MaxPriceWF

\* fractals = WilliamsFractals(df, period=n): one more instance on the same df
NewWilliamsFractals(n) ==
    /\ Len(fractals) < MaxFractals
    /\ df' = WilliamsFractals_calculate(df, n)
    /\ fractals' = Append(fractals, WilliamsFractals_init(df, n))
    /\ last' = [op |-> "WilliamsFractals", id |-> Len(fractals) + 1, raised |-> FALSE]
    /\ UNCHANGED <<ichimoku, rsi, ma_cross>>

\* an analyze that consumes the cached list of recent up-fractals
AnalyzeWilliamsFractals_consuming(id, p) ==
    /\ id \in 1..Len(fractals)
    /\ last' = [op |-> "WilliamsFractals.analyze", id |-> id, price |-> p,
                rep |-> Repeat("WilliamsFractals.analyze", id, p), raised |-> FALSE,
                out |-> WilliamsFractals_analyze(fractals[id], df, Int2Val(p))]
    /\ fractals' = [fractals EXCEPT ![id].recent_up_fractals =
                        IF @ = << >> THEN @ ELSE SubSeq(@, 1, Len(@) - 1)]
    /\ UNCHANGED <<df, ichimoku, rsi, ma_cross>>

\* fractals[id].analyze(current_price)
AnalyzeWilliamsFractals(id, p) ==
    /\ id \in 1..Len(fractals)
    /\ last' = [op |-> "WilliamsFractals.analyze", id |-> id, price |-> p,
                rep |-> Repeat("WilliamsFractals.analyze", id, p), raised |-> FALSE,
                out |-> WilliamsFractals_analyze(fractals[id], df, Int2Val(p))]
    /\ UNCHANGED <<df, ichimoku, rsi, fractals, ma_cross>>

\* bars of n periods whose highs alternate between 2 and 1, starting with
\* `first`, each low one below its high: every inner bar is a fractal
Zigzag(n, first) ==
    LET high == [i \in 1..n |-> IF i % 2 = 1 THEN first ELSE 3 - first]
    IN  [high |-> high, low |-> [i \in 1..n |-> high[i] - 1]]

\* bars drawn freely (close = high), and longer series that hold more
\* fractals than the recent-fractal sequence keeps
InitWF ==
    /\ \/ \E n \in 1..MaxLenWF : \E b \in Bars(n, MaxPriceWF) :
             df = NewFrame(b.high, b.low, b.high)
       \/ \E n \in (MaxLenWF + 1)..MaxLenZigzag : \E first \in 1..2 :
             df = NewFrame(Zigzag(n, first).high, Zigzag(n, first).low,
                           Zigzag(n, first).high)
    /\ NoEngines

NextWF ==
    \/ \E n \in HalfWindows : NewWilliamsFractals(n)
    \/ \E id \in 1..MaxFractals : \E p \in PricesWF : AnalyzeWilliamsFractals(id, p)

SpecWF == InitWF /\ [][NextWF]_vars

(***************************************************************************)
(* RSI (rsi.py).                                                           *)
(***************************************************************************)
\* delta = close.diff(); gains = delta.where(delta > 0, 0)
Gains(close) ==
    Build([i \in 1..Len(close) |->
        IF i >= 2 /\ close[i] > close[i - 1]
        THEN Int2Val(close[i] - close[i - 1]) ELSE Int2Val(0)], Len(close))

\* losses = -delta.where(delta < 0, 0)
Losses(close) ==
    Build([i \in 1..Len(close) |->
        IF i >= 2 /\ close[i] < close[i - 1]
        THEN Int2Val(close[i - 1] - close[i]) ELSE Int2Val(0)], Len(close))

\* RsiOf with a zero average loss reported as a missing value
RsiOf_missing(g, l) ==
    IF l.n = 0 THEN NaN
    ELSE Num(100 * g.n * l.d, g.n * l.d + l.n * g.d)

\* rs = avg_gain / avg_loss; 100 - 100 / (1 + rs).  A zero average loss
\* makes rs infinite (RSI 100) or, with a zero average gain, NaN.
RsiOf(g, l) ==
    IF l.n = 0
    THEN IF g.n = 0 THEN NaN ELSE Int2Val(100)
    ELSE Num(100 * g.n * l.d, g.n * l.d + l.n * g.d)

\* RSI.calculate: self.rsi
RSI_rsi(close, length) ==
    LET avg_gains == Ewm(Gains(close), 1, length)
        avg_losses == Ewm(Losses(close), 1, length)
    IN  Build([i \in 1..Len(close) |-> RsiOf(avg_gains[i], avg_losses[i])], Len(close))

\* RSI.calculate: self.smoothed_rsi
RSI_smoothed(r, smoothing_type, smoothing_length) ==
    IF smoothing_type = "SMA" THEN RollingMean(r, smoothing_length)
    ELSE IF smoothing_type = "EMA" THEN Ewm(r, 2, smoothing_length + 1)
    ELSE r

UpperLimit == 70

MiddleLimit == 50

LowerLimit == 30

\* RSI.__init__ and RSI.calculate
RSI_init(d, length, smoothing_type, smoothing_length) ==
    [cls |-> "RSI", length |-> length, smoothing_type |-> smoothing_type,
     smoothing_length |-> smoothing_length,
     upper_limit |-> UpperLimit, middle_limit |-> MiddleLimit,
     lower_limit |-> LowerLimit,
     rsi |-> RSI_rsi(d.close, length),
     smoothed_rsi |->
        RSI_smoothed(RSI_rsi(d.close, length), smoothing_type, smoothing_length)]

\* RSI.get_current_values
RSI_get_current_values(self) ==
    [rsi |-> ILocNeg(self.rsi, 1),
     smoothed_rsi |-> ILocNeg(self.smoothed_rsi, 1),
     upper_limit |-> self.upper_limit,
     middle_limit |-> self.middle_limit,
     lower_limit |-> self.lower_limit]

TrendSpan == 5

\* RSI_analyze with the trend taken over a window one bar longer
RSI_analyze_longer(self) ==
    LET values == RSI_get_current_values(self)
        current_rsi == values.smoothed_rsi
        recent_rsi == TailOf(self.smoothed_rsi, TrendSpan + 1)
    IN  [values |-> values,
         condition |->
            IF Ge(current_rsi, Int2Val(self.upper_limit)) THEN "OVERBOUGHT"
            ELSE IF Le(current_rsi, Int2Val(self.lower_limit)) THEN "OVERSOLD"
            ELSE "NEUTRAL",
         momentum |->
            IF Gt(current_rsi, Int2Val(self.middle_limit)) THEN "BULLISH"
            ELSE "BEARISH",
         trend |->
            IF Len(recent_rsi) >= TrendSpan + 1
            THEN IF Gt(ILocNeg(recent_rsi, 1), recent_rsi[1])
                 THEN "RISING" ELSE "FALLING"
            ELSE Absent]

\* RSI.analyze: the returned (values, analysis)
RSI_analyze(self) ==
    LET values == RSI_get_current_values(self)
        current_rsi == values.smoothed_rsi
        recent_rsi == TailOf(self.smoothed_rsi, TrendSpan)
    IN  [values |-> values,
         condition |->
            IF Ge(current_rsi, Int2Val(self.upper_limit)) THEN "OVERBOUGHT"
            ELSE IF Le(current_rsi, Int2Val(self.lower_limit)) THEN "OVERSOLD"
            ELSE "NEUTRAL",
         momentum |->
            IF Gt(current_rsi, Int2Val(self.middle_limit)) THEN "BULLISH"
            ELSE "BEARISH",
         trend |->
            IF Len(recent_rsi) >= TrendSpan
            THEN IF Gt(ILocNeg(recent_rsi, 1), recent_rsi[1])
                 THEN "RISING" ELSE "FALLING"
            ELSE Absent]

\* the labels i of lo..hi with keep[i], in increasing order
RECURSIVE Select(_, _, _, _)
Select(keep, i, hi, acc) ==
    IF i > hi THEN acc
    ELSE Select(keep, i + 1, hi, IF keep[i] THEN Append(acc, i) ELSE acc)

\* recent[recent.rolling(w, center=True).max() == recent].dropna() for
\* recent = series.iloc[-lookback:] : the labels of the kept bars, in order
PeakLabels(series, lookback, w) ==
    LET start == Len(series) - lookback
        recent == SubSeq(series, start + 1, Len(series))
        m == RollingMaxCentered(recent, w)
    IN  Select([i \in start..(Len(series) - 1) |->
                    Eq(m[i - start + 1], recent[i - start + 1])],
               start, Len(series) - 1, << >>)

TroughLabels(series, lookback, w) ==
    LET start == Len(series) - lookback
        recent == SubSeq(series, start + 1, Len(series))
        m == RollingMinCentered(recent, w)
    IN  Select([i \in start..(Len(series) - 1) |->
                    Eq(m[i - start + 1], recent[i - start + 1])],
               start, Len(series) - 1, << >>)

\* peaks.index[-1] and peaks.index[-2]
LastLabel(labels) == labels[Len(labels)]

PrevLabel(labels) == labels[Len(labels) - 1]

Dist(x, t) == IF x >= t THEN x - t ELSE t - x

\* index.get_loc(t, method='nearest'): the position, from 0, of the label
\* nearest to t; pandas breaks a tie towards the larger label
GetLocNearest(labels, t) ==
    (CHOOSE k \in 1..Len(labels) : \A j \in 1..Len(labels) :
        \/ Dist(labels[k], t) < Dist(labels[j], t)
        \/ (Dist(labels[k], t) = Dist(labels[j], t) /\ k >= j)) - 1

\* peaks[key] with an integer key on an integer index looks the key up as
\* a label: KeyError unless a kept bar carries that label
LabelLookupRaises(labels, key) == \A k \in 1..Len(labels) : labels[k] # key

LabelLookup(series, key) == series[key + 1]

\* rsi_peaks[rsi_peaks.index.get_loc(label, method='nearest')]
CorrespondingRaises(labels, t) == LabelLookupRaises(labels, GetLocNearest(labels, t))

Corresponding(series, labels, t) == LabelLookup(series, GetLocNearest(labels, t))

\* get_divergence without the early return of the bearish branch: the
\* trough check runs as well and sets its flag and description
RSI_divergence_checked_fallthrough(self, d, lookback, peak_window) ==
    LET price == ToVals(d.close)
        srsi == self.smoothed_rsi
        price_peaks == PeakLabels(price, lookback, peak_window)
        price_troughs == TroughLabels(price, lookback, peak_window)
        rsi_peaks == PeakLabels(srsi, lookback, peak_window)
        rsi_troughs == TroughLabels(srsi, lookback, peak_window)
        peaks_ok == Len(price_peaks) >= 2 /\ Len(rsi_peaks) >= 2
        troughs_ok == Len(price_troughs) >= 2 /\ Len(rsi_troughs) >= 2
        peaks_raise ==
            \/ CorrespondingRaises(rsi_peaks, LastLabel(price_peaks))
            \/ CorrespondingRaises(rsi_peaks, PrevLabel(price_peaks))
        bearish ==
            /\ Gt(price[LastLabel(price_peaks) + 1], price[PrevLabel(price_peaks) + 1])
            /\ Lt(Corresponding(srsi, rsi_peaks, LastLabel(price_peaks)),
                  Corresponding(srsi, rsi_peaks, PrevLabel(price_peaks)))
        troughs_raise ==
            \/ CorrespondingRaises(rsi_troughs, LastLabel(price_troughs))
            \/ CorrespondingRaises(rsi_troughs, PrevLabel(price_troughs))
        bullish ==
            /\ Lt(price[LastLabel(price_troughs) + 1], price[PrevLabel(price_troughs) + 1])
            /\ Gt(Corresponding(srsi, rsi_troughs, LastLabel(price_troughs)),
                  Corresponding(srsi, rsi_troughs, PrevLabel(price_troughs)))
        Record(bull, bear, text) ==
            [kind |-> "record", bullish_divergence |-> bull,
             bearish_divergence |-> bear, description |-> text]
        Raise == [kind |-> "raise", bullish_divergence |-> FALSE,
                  bearish_divergence |-> FALSE, description |-> "KeyError"]
    IN  IF peaks_ok /\ peaks_raise THEN Raise
        ELSE IF peaks_ok /\ bearish /\ troughs_ok /\ troughs_raise THEN Raise
        ELSE IF peaks_ok /\ bearish /\ troughs_ok /\ bullish
             THEN Record(TRUE, TRUE, "Bullish divergence")
        ELSE IF peaks_ok /\ bearish THEN Record(FALSE, TRUE, "Bearish divergence")
        ELSE IF troughs_ok /\ troughs_raise THEN Raise
        ELSE IF troughs_ok /\ bullish THEN Record(TRUE, FALSE, "Bullish divergence")
        ELSE Record(FALSE, FALSE, "No divergence detected")

\* RSI.get_divergence for len(df) >= lookback.  kind is "raise" when a
\* lookup raises KeyError, else "record".
RSI_divergence_checked(self, d, lookback, peak_window) ==
    LET price == ToVals(d.close)
        srsi == self.smoothed_rsi
        price_peaks == PeakLabels(price, lookback, peak_window)
        price_troughs == TroughLabels(price, lookback, peak_window)
        rsi_peaks == PeakLabels(srsi, lookback, peak_window)
        rsi_troughs == TroughLabels(srsi, lookback, peak_window)
        peaks_ok == Len(price_peaks) >= 2 /\ Len(rsi_peaks) >= 2
        troughs_ok == Len(price_troughs) >= 2 /\ Len(rsi_troughs) >= 2
        peaks_raise ==
            \/ CorrespondingRaises(rsi_peaks, LastLabel(price_peaks))
            \/ CorrespondingRaises(rsi_peaks, PrevLabel(price_peaks))
        bearish ==
            /\ Gt(price[LastLabel(price_peaks) + 1], price[PrevLabel(price_peaks) + 1])
            /\ Lt(Corresponding(srsi, rsi_peaks, LastLabel(price_peaks)),
                  Corresponding(srsi, rsi_peaks, PrevLabel(price_peaks)))
        troughs_raise ==
            \/ CorrespondingRaises(rsi_troughs, LastLabel(price_troughs))
            \/ CorrespondingRaises(rsi_troughs, PrevLabel(price_troughs))
        bullish ==
            /\ Lt(price[LastLabel(price_troughs) + 1], price[PrevLabel(price_troughs) + 1])
            /\ Gt(Corresponding(srsi, rsi_troughs, LastLabel(price_troughs)),
                  Corresponding(srsi, rsi_troughs, PrevLabel(price_troughs)))
        Record(bull, bear, text) ==
            [kind |-> "record", bullish_divergence |-> bull,
             bearish_divergence |-> bear, description |-> text]
        Raise == [kind |-> "raise", bullish_divergence |-> FALSE,
                  bearish_divergence |-> FALSE, description |-> "KeyError"]
    IN  IF peaks_ok /\ peaks_raise THEN Raise
        ELSE IF peaks_ok /\ bearish THEN Record(FALSE, TRUE, "Bearish divergence")
        ELSE IF troughs_ok /\ troughs_raise THEN Raise
        ELSE IF troughs_ok /\ bullish THEN Record(TRUE, FALSE, "Bullish divergence")
        ELSE Record(FALSE, FALSE, "No divergence detected")

\* RSI.get_divergence
RSI_get_divergence(self, d, lookback, peak_window) ==
    IF Len(d.close) < lookback
    THEN [kind |-> "None", bullish_divergence |-> FALSE,
          bearish_divergence |-> FALSE, description |-> "None"]
    ELSE RSI_divergence_checked(self, d, lookback, peak_window)

RsiLengths == 1..MaxRsiLength

\* (smoothing_type, smoothing_length); the EMA pass is kept to span 1 so
\* that the exact rationals stay within 32-bit integers
Smoothings ==
    {<<"SMA", m>> : m \in 2..MaxSmoothing} \cup {<<"EMA", 1>>, <<"NONE", 1>>}

PricesRSI == 1..MaxPriceRSI

\* closes that move by one each bar, long enough for get_divergence to find
\* a bearish and a bullish divergence in the same window
LongCloses == <<3, 2, 3, 4, 3, 4, 5, 6, 5, 4, 3, 4, 3, 2, 3, 4, 5, 4, 3>>

\* one lookback one bar short of the longest drawn series: the window then
\* sits at the end of a longer series, covers a series of its own length, or
\* exceeds a shorter one; and one lookback that covers the long series
LookbacksRSI == {MaxLenRSI - 1, Len(LongCloses)}

PeakWindows == {1, 3}

\* rsi = RSI(df, length, smoothing_type, smoothing_length)
NewRSI(length, smoothing_type, smoothing_length) ==
    /\ rsi = NoObject
    /\ rsi' = RSI_init(df, length, smoothing_type, smoothing_length)
    /\ last' = [op |-> "RSI", id |-> 1, raised |-> FALSE]
    /\ UNCHANGED <<df, ichimoku, fractals, ma_cross>>

\* rsi.analyze()
AnalyzeRSI ==
    /\ rsi # NoObject
    /\ last' = [op |-> "RSI.analyze", id |-> 1, price |-> 0,
                rep |-> Repeat("RSI.analyze", 1, 0), raised |-> FALSE,
                out |-> RSI_analyze(rsi)]
    /\ UNCHANGED <<df, ichimoku, rsi, fractals, ma_cross>>

\* rsi.get_divergence(lookback, peak_window)
DivergenceRSI(lookback, peak_window) ==
    /\ rsi # NoObject
    /\ LET out == RSI_get_divergence(rsi, df, lookback, peak_window)
       IN  last' = [op |-> "RSI.get_divergence", id |-> 1,
                    lookback |-> lookback, peak_window |-> peak_window,
                    raised |-> (out.kind = "raise"), out |-> out]
    /\ UNCHANGED <<df, ichimoku, rsi, fractals, ma_cross>>

\* bars whose close is drawn freely (high = low = close)
InitRSI ==
    /\ \/ \E n \in 1..MaxLenRSI : \E c \in [1..n -> PricesRSI] : df = NewFrame(c, c, c)
       \/ df = NewFrame(LongCloses, LongCloses, LongCloses)
    /\ NoEngines

\* the RSI lengths tried on a series: on the long series only length 1,
\* so that the exact rationals stay within 32-bit integers
LengthsFor(d) == IF Len(d.close) > MaxLenRSI THEN {1} ELSE RsiLengths

NextRSI ==
    \/ \E n \in LengthsFor(df) : \E sm \in Smoothings : NewRSI(n, sm[1], sm[2])
    \/ AnalyzeRSI
    \/ \E k \in LookbacksRSI : \E w \in PeakWindows : DivergenceRSI(k, w)

SpecRSI == InitRSI /\ [][NextRSI]_vars

(***************************************************************************)
(* Claims about RSI.get_divergence.                                        *)
(***************************************************************************)
\* the value of the kept bar of `labels' whose label is nearest to t
\* (a tie goes to the later bar)
AtNearest(series, labels, t) == series[labels[GetLocNearest(labels, t) + 1] + 1]

\* C2: with at least 2 price peaks and 2 smoothed-RSI peaks in the window,
\* bearish_divergence is true exactly when the last price peak is above
\* the previous one and the RSI peak nearest to the last price peak is
\* below the RSI peak nearest to the previous one, wherever the window
\* sits in the series.
C2_BearishComparesNearestRsiPeaks ==
    (last.op = "RSI.get_divergence" /\ Len(df.close) >= last.lookback) =>
        LET price == ToVals(df.close)
            price_peaks == PeakLabels(price, last.lookback, last.peak_window)
            rsi_peaks == PeakLabels(rsi.smoothed_rsi, last.lookback, last.peak_window)
        IN  (Len(price_peaks) >= 2 /\ Len(rsi_peaks) >= 2) =>
                /\ ~last.raised
                /\ last.out.bearish_divergence =
                      (/\ Gt(price[LastLabel(price_peaks) + 1],
                             price[PrevLabel(price_peaks) + 1])
                       /\ Lt(AtNearest(rsi.smoothed_rsi, rsi_peaks, LastLabel(price_peaks)),
                             AtNearest(rsi.smoothed_rsi, rsi_peaks, PrevLabel(price_peaks))))

\* C3: get_divergence returns None exactly when the series is shorter
\* than the lookback; otherwise it returns a record without raising, and
\* the record has bearish (bullish) false when fewer than 2 peaks
\* (troughs) exist in the price or the smoothed-RSI window.
C3_InsufficientDataVersusNoneFound ==
    last.op = "RSI.get_divergence" =>
        LET price == ToVals(df.close)
            short == Len(df.close) < last.lookback
            few_peaks ==
                \/ Len(PeakLabels(price, last.lookback, last.peak_window)) < 2
                \/ Len(PeakLabels(rsi.smoothed_rsi, last.lookback, last.peak_window)) < 2
            few_troughs ==
                \/ Len(TroughLabels(price, last.lookback, last.peak_window)) < 2
                \/ Len(TroughLabels(rsi.smoothed_rsi, last.lookback, last.peak_window)) < 2
        IN  /\ (last.out.kind = "None") <=> short
            /\ ~short =>
                  /\ ~last.raised
                  /\ last.out.kind = "record"
                  /\ few_peaks => ~last.out.bearish_divergence
                  /\ few_troughs => ~last.out.bullish_divergence

(***************************************************************************)
(* The program: main() builds the four engines on one DataFrame and calls  *)
(* analyze on each.  The periods are the defaults scaled to short series.  *)
(***************************************************************************)
MaxLenMain == 3

MaxPriceMain == 2

PricesMain == 1..MaxPriceMain

MainIchimoku == <<1, 2, 3, 2>>

MainRSI == <<2, "SMA", 2>>

MainHalfWindows == {1}

MainMACross == <<1, 2, 3, "SMA">>

Init ==
    /\ \E n \in 1..MaxLenMain : \E b \in Bars(n, MaxPriceMain) :
          df = NewFrame(b.high, b.low, b.high)
    /\ NoEngines

Next ==
    \/ NewIchimoku(MainIchimoku[1], MainIchimoku[2], MainIchimoku[3], MainIchimoku[4])
    \/ \E p \in PricesMain : AnalyzeIchimoku(p)
    \/ NewRSI(MainRSI[1], MainRSI[2], MainRSI[3])
    \/ AnalyzeRSI
    \/ \E n \in MainHalfWindows : NewWilliamsFractals(n)
    \/ \E id \in 1..MaxFractals : \E p \in PricesMain : AnalyzeWilliamsFractals(id, p)
    \/ NewMACross(MainMACross[1], MainMACross[2], MainMACross[3], MainMACross[4])
    \/ \E p \in PricesMain : AnalyzeMACross(p)

Spec == Init /\ [][Next]_vars

(***************************************************************************)
(* Claims about all four engines.                                          *)
(***************************************************************************)
\* C9: an engine with a non-positive period, or a MACross whose fast
\* period is not below its slow period or whose slow period is not below
\* its long period, is rejected at construction: no such instance exists
\* and none reaches analyze.
C9_InvalidPeriodsRejected ==
    /\ ma_cross # NoObject =>
          /\ ma_cross.fast_ma_period > 0
          /\ ma_cross.fast_ma_period < ma_cross.slow_ma_period
          /\ ma_cross.slow_ma_period < ma_cross.long_ma_period
    /\ \A i \in 1..Len(fractals) : fractals[i].period > 0
    /\ rsi # NoObject => (rsi.length > 0 /\ rsi.smoothing_length > 0)
    /\ ichimoku # NoObject =>
          /\ ichimoku.tenkan_period > 0
          /\ ichimoku.kijun_period > 0
          /\ ichimoku.senkou_b_period > 0
          /\ ichimoku.displacement > 0

IsAnalyze(call) ==
    call.op \in {"Ichimoku.analyze", "RSI.analyze",
                 "WilliamsFractals.analyze", "MACross.analyze"}

\* C10: calling analyze twice in a row on the same instance with the same
\* price returns the same (values, analysis) both times (or raises both
\* times), and the first call changes nothing the second one reads.
C10_AnalyzeIdempotent ==
    [][(IsAnalyze(last') /\ last'.rep = 2) =>
           /\ last' = [last EXCEPT !.rep = 2]
           /\ <<df, ichimoku, rsi, fractals, ma_cross>>' =
              <<df, ichimoku, rsi, fractals, ma_cross>>]_vars

\* each engine has answered the same analyze call twice in a row
C10_Witness ==
    /\ last.op = "WilliamsFractals.analyze"
    /\ last.rep = 2
    /\ ~last.raised
    /\ ichimoku # NoObject
    /\ rsi # NoObject
    /\ ma_cross # NoObject
    /\ last.out.values.recent_up_fractals # << >>

(***************************************************************************)
(* Claims about WilliamsFractals.                                          *)
(***************************************************************************)
\* high is flat below its value at position p, which has n bars on each side
IsSpike(high, p, n) ==
    /\ p \in 1..Len(high)
    /\ p - n >= 1
    /\ p + n <= Len(high)
    /\ \A i, j \in 1..Len(high) : (i # p /\ j # p) => high[i] = high[j]
    /\ \A i \in 1..Len(high) : i # p => high[i] < high[p]

Flagged(col) == {i \in 1..Len(col) : IsNum(col[i])}

\* the instance whose calculate wrote the columns now in df
LastBuilt == fractals[Len(fractals)]

\* C4: a high series that is flat except for one spike at p, with at
\* least n bars on each side of p, has exactly one up-fractal, at p
\* (half-window n >= 1).
C4_SingleSpikeSingleFractal ==
    (fractals # << >> /\ LastBuilt.period >= 1) =>
        \A p \in 1..Len(df.high) :
            IsSpike(df.high, p, LastBuilt.period) =>
                Flagged(df.fractal_up) = {p}

\* C4 as amended: the spike is an up-fractal of height H, no bar within n
\* of the spike is one, and the other up-fractals are exactly the flat bars
\* whose whole window lies inside the series and misses the spike.
C4_SpikeAndPlateaus ==
    fractals # << >> =>
        \A p \in 1..Len(df.high) :
            IsSpike(df.high, p, LastBuilt.period) =>
                LET n == LastBuilt.period
                IN  /\ df.fractal_up[p] = Int2Val(df.high[p])
                    /\ Flagged(df.fractal_up) \ {p} =
                          {i \in 1..Len(df.high) :
                              /\ i - n >= 1
                              /\ i + n <= Len(df.high)
                              /\ (i < p - n \/ i > p + n)}

\* a spike with a flat bar far enough from it to be flagged as well
C4_Witness ==
    /\ fractals # << >>
    /\ LastBuilt.period >= 1
    /\ \E p \in 1..Len(df.high) :
          /\ IsSpike(df.high, p, LastBuilt.period)
          /\ Cardinality(Flagged(df.fractal_up)) >= 2

\* what analyze returns for an instance that owns its series privately:
\* a function of the bars, the instance's period and the price
PrivateAnalysis(d, n, price) ==
    LET bars == NewFrame(d.high, d.low, d.close)
    IN  WilliamsFractals_analyze(WilliamsFractals_init(bars, n),
                                 WilliamsFractals_calculate(bars, n), price)

\* C8: the result of an instance's analyze depends only on the bars, the
\* instance's own parameters and the price, whatever other engines were
\* constructed on the same bars in between.
C8_EngineIsolation ==
    last.op = "WilliamsFractals.analyze" =>
        last.out = PrivateAnalysis(df, fractals[last.id].period, Int2Val(last.price))

(***************************************************************************)
(* Claims about MACross.                                                   *)
(***************************************************************************)
\* the bars of the trailing window where (faster > slower) goes from `from'
\* at the previous bar to `to' at the bar itself
Transitions(faster, slower, lookback, from, to) ==
    {i \in TailPositions(Len(faster), lookback) :
        /\ i >= 2
        /\ Gt(faster[i - 1], slower[i - 1]) = from
        /\ Gt(faster[i], slower[i]) = to}

LabelOfLast(S) == IF S = {} THEN NoIndex ELSE (CHOOSE i \in S : \A j \in S : j <= i) - 1

DirectedHistory(faster, slower, lookback) ==
    [last_golden_cross |-> LabelOfLast(Transitions(faster, slower, lookback, FALSE, TRUE)),
     last_death_cross |-> LabelOfLast(Transitions(faster, slower, lookback, TRUE, FALSE))]

\* C1: get_cross_history reports, for each pair, the most recent
\* false-to-true bar of (faster > slower) in the trailing window as
\* last_golden_cross and the most recent true-to-false bar as
\* last_death_cross, None when there is no such bar.
C1_CrossHistoryDirected ==
    last.op = "MACross.get_cross_history" =>
        /\ last.out.fast_slow =
              DirectedHistory(ma_cross.ma_fast, ma_cross.ma_slow, last.lookback)
        /\ last.out.slow_long =
              DirectedHistory(ma_cross.ma_slow, ma_cross.ma_long, last.lookback)

\* sign in {+1, -1} of a difference of two values
SignGt(a, b) == IF Gt(a, b) THEN 1 ELSE -1

ScoreTimes10(price, values) ==
      3 * SignGt(values.ma_fast, values.ma_slow)
    + 3 * SignGt(values.ma_slow, values.ma_long)
    + 4 * SignGt(price, values.ma_long)

\* C7: the market-structure score is 0.3*sign(fast-slow) +
\* 0.3*sign(slow-long) + 0.4*sign(price-long), lies in [-1, 1], and the
\* signal is STRONG_BULLISH above 0.5, STRONG_BEARISH below -0.5,
\* BULLISH_BIAS in (0, 0.5] and BEARISH_BIAS otherwise (0 included).
C7_MarketStructure ==
    last.op = "MACross.analyze" =>
        LET s10 == ScoreTimes10(Int2Val(last.price), last.out.values)
            ms == last.out.market_structure
        IN  /\ ms.weighted_score = Num(s10, 10)
            /\ s10 >= -10 /\ s10 <= 10
            /\ ms.signal = IF s10 > 5 THEN "STRONG_BULLISH"
                           ELSE IF s10 < -5 THEN "STRONG_BEARISH"
                           ELSE IF s10 > 0 /\ s10 <= 5 THEN "BULLISH_BIAS"
                           ELSE "BEARISH_BIAS"

\* an analysis with all three averages defined that lands in a bias band
C7_Witness ==
    /\ last.op = "MACross.analyze"
    /\ IsNum(last.out.values.ma_long)
    /\ last.out.market_structure.signal = "BULLISH_BIAS"
    /\ last.out.market_structure.weighted_score = Num(2, 10)

(***************************************************************************)
(* Claims about RSI.calculate and RSI.analyze.                             *)
(***************************************************************************)
StrictlyIncreasing(c) == \A i \in 2..Len(c) : c[i] > c[i - 1]

StrictlyDecreasing(c) == \A i \in 2..Len(c) : c[i] < c[i - 1]

\* the number of bars from which the smoothed RSI has a value at the last
\* bar: one price change, and a full window of them under SMA smoothing
BarsNeeded(self) ==
    IF self.smoothing_type = "SMA" THEN self.smoothing_length + 1 ELSE 2

InUnitRange(s) ==
    \A i \in 1..Len(s) :
        IsNum(s[i]) => Ge(s[i], Int2Val(0)) /\ Le(s[i], Int2Val(100))

\* C11: on a strictly increasing close series with enough bars the latest
\* smoothed RSI is exactly 100 (a zero average loss gives 100, not a missing
\* value), on a strictly decreasing one it is exactly 0, and in both cases
\* every defined RSI and smoothed RSI value lies in [0, 100].
C11_RsiLimitsOnMonotone ==
    rsi # NoObject =>
        LET c == df.close
            enough == Len(c) >= BarsNeeded(rsi)
            latest == ILocNeg(rsi.smoothed_rsi, 1)
        IN  /\ (StrictlyIncreasing(c) /\ enough) => Eq(latest, Int2Val(100))
            /\ (StrictlyDecreasing(c) /\ enough) => Eq(latest, Int2Val(0))
            /\ (StrictlyIncreasing(c) \/ StrictlyDecreasing(c)) =>
                    InUnitRange(rsi.rsi) /\ InUnitRange(rsi.smoothed_rsi)

C11_Witness ==
    /\ rsi # NoObject
    /\ rsi.smoothing_type = "SMA"
    /\ Len(df.close) >= 3
    /\ StrictlyIncreasing(df.close)
    /\ Len(df.close) >= BarsNeeded(rsi)
    /\ Eq(ILocNeg(rsi.smoothed_rsi, 1), Int2Val(100))

\* the trend signal that compares the latest smoothed RSI (index L-1) with
\* the one `back` bars before it, for a series of more than `back` bars
TrendOver(self, back) ==
    LET s == self.smoothed_rsi
    IN  IF Gt(s[Len(s)], s[Len(s) - back]) THEN "RISING" ELSE "FALLING"

\* C12 as stated: with at least 5 smoothed values the trend compares index
\* L-1-5 with index L-1 (RISING if the latest is strictly greater, FALLING
\* otherwise); with fewer than 5 values the trend is absent.
C12_TrendFiveBarsBack ==
    last.op = "RSI.analyze" =>
        LET L == Len(rsi.smoothed_rsi)
        IN  /\ L < TrendSpan => last.out.trend = Absent
            /\ L >= TrendSpan => last.out.trend # Absent
            /\ L > TrendSpan => last.out.trend = TrendOver(rsi, TrendSpan)

\* C12, amended: with at least 5 bars the trend compares the first of the
\* last five smoothed values (index L-5, four bars before the latest) with
\* the latest one (index L-1): RISING if the latest is strictly greater,
\* FALLING otherwise, also when either value is NaN; with fewer than 5 bars
\* the trend is absent.
C12_TrendOverLastFive ==
    last.op = "RSI.analyze" =>
        LET L == Len(rsi.smoothed_rsi)
        IN  /\ L < TrendSpan => last.out.trend = Absent
            /\ L >= TrendSpan => last.out.trend = TrendOver(rsi, TrendSpan - 1)

C12_Witness ==
    /\ last.op = "RSI.analyze"
    /\ Len(rsi.smoothed_rsi) > TrendSpan
    /\ last.out.trend = "RISING"
    /\ TrendOver(rsi, TrendSpan) = "FALLING"

(***************************************************************************)
(* Claims about WilliamsFractals.analyze.                                  *)
(***************************************************************************)
\* C13: the position signal is present if and only if the instance has both
\* a last up-fractal and a last down-fractal, whatever their levels (a level
\* of 0 included); when present it is BREAKOUT if price > last up-fractal,
\* else BREAKDOWN if price < last down-fractal, else RANGE.
C13_PositionIffBothFractals ==
    last.op = "WilliamsFractals.analyze" =>
        LET self == fractals[last.id]
            up == self.last_up_fractal
            down == self.last_down_fractal
            price == Int2Val(last.price)
            both == IsNum(up) /\ IsNum(down)
        IN  /\ (last.out.position # Absent) <=> both
            /\ both =>
                  last.out.position =
                      IF Gt(price, up) THEN "BREAKOUT"
                      ELSE IF Lt(price, down) THEN "BREAKDOWN"
                      ELSE "RANGE"

\* the bars the backward scan reads, as positions 1..L of the columns: from
\* the most recent bar (position L) down to position 2; the scan ends
\* before the last position it would reach, the oldest bar
FractalBars(d) ==
    {i \in 2..Len(d.fractal_up) :
        IsNum(d.fractal_up[i]) \/ IsNum(d.fractal_down[i])}

TokenOf(d, i) == IF IsNum(d.fractal_up[i]) THEN "up" ELSE "down"

\* the k-th newest bar of S
KthNewest(S, k) == CHOOSE i \in S : Cardinality({j \in S : j > i}) = k - 1

\* C14: the recent-fractal sequence has exactly 10 tokens; its k-th token is
\* that of the k-th newest fractal bar among the scanned bars ('up' for an
\* up-fractal bar, also when it is a down-fractal bar too, 'down' otherwise)
\* for k up to min(10, number of scanned fractal bars), and 'none' after.
C14_RecentFractalSequence ==
    last.op = "WilliamsFractals.analyze" =>
        LET seq == last.out.sequence
            F == FractalBars(df)
            real == IF Cardinality(F) < SequenceLen THEN Cardinality(F) ELSE SequenceLen
        IN  /\ Len(seq) = SequenceLen
            /\ \A k \in 1..SequenceLen :
                  seq[k] = IF k <= real THEN TokenOf(df, KthNewest(F, k)) ELSE "none"

C14_Witness ==
    /\ last.op = "WilliamsFractals.analyze"
    /\ Cardinality(FractalBars(df)) > SequenceLen
    /\ \E k \in 1..SequenceLen : last.out.sequence[k] = "up"
    /\ \E k \in 1..SequenceLen : last.out.sequence[k] = "down"
    /\ \A k \in 1..SequenceLen : last.out.sequence[k] # "none"

\* a scanned bar that is both an up-fractal and a down-fractal reads 'up',
\* and a sequence shorter than 10 is padded
C14_WitnessBoth ==
    /\ last.op = "WilliamsFractals.analyze"
    /\ \E i \in FractalBars(df) : IsNum(df.fractal_up[i]) /\ IsNum(df.fractal_down[i])
    /\ last.out.sequence[SequenceLen] = "none"

(***************************************************************************)
(* Claims about Ichimoku.analyze.                                          *)
(***************************************************************************)
\* C15: when analyze returns, the price-vs-cloud signal is one of BULLISH,
\* BEARISH and NEUTRAL; with both current-cloud spans defined it is BULLISH
\* exactly when price > max(span_a, span_b), BEARISH exactly when
\* price < min(span_a, span_b) and NEUTRAL exactly when price lies between
\* them; BULLISH or BEARISH is produced only when both spans are defined.
C15_PriceVersusCloud ==
    (last.op = "Ichimoku.analyze" /\ ~last.raised) =>
        LET values == Ichimoku_get_current_values(ichimoku)
            a == values.current_span_a
            b == values.current_span_b
            defined == IsNum(a) /\ IsNum(b)
            top == IF Ge(a, b) THEN a ELSE b
            bottom == IF Le(a, b) THEN a ELSE b
            price == Int2Val(last.price)
            signal == last.out.price_vs_cloud
        IN  /\ signal \in {"BULLISH", "BEARISH", "NEUTRAL"}
            /\ defined =>
                  /\ (signal = "BULLISH") <=> Gt(price, top)
                  /\ (signal = "BEARISH") <=> Lt(price, bottom)
                  /\ (signal = "NEUTRAL") <=> (Ge(price, bottom) /\ Le(price, top))
            /\ signal \in {"BULLISH", "BEARISH"} => defined

(***************************************************************************)
(* Claims about the flags of RSI.get_divergence.                           *)
(***************************************************************************)
\* the bearish test of get_divergence on the window, as the code evaluates it
BearishCondition(self, d, lookback, w) ==
    LET price == ToVals(d.close)
        pp == PeakLabels(price, lookback, w)
        rp == PeakLabels(self.smoothed_rsi, lookback, w)
    IN  /\ Len(pp) >= 2 /\ Len(rp) >= 2
        /\ ~CorrespondingRaises(rp, LastLabel(pp))
        /\ ~CorrespondingRaises(rp, PrevLabel(pp))
        /\ Gt(price[LastLabel(pp) + 1], price[PrevLabel(pp) + 1])
        /\ Lt(Corresponding(self.smoothed_rsi, rp, LastLabel(pp)),
              Corresponding(self.smoothed_rsi, rp, PrevLabel(pp)))

\* the bullish test of get_divergence on the window, as the code evaluates it
BullishCondition(self, d, lookback, w) ==
    LET price == ToVals(d.close)
        pt == TroughLabels(price, lookback, w)
        rt == TroughLabels(self.smoothed_rsi, lookback, w)
    IN  /\ Len(pt) >= 2 /\ Len(rt) >= 2
        /\ ~CorrespondingRaises(rt, LastLabel(pt))
        /\ ~CorrespondingRaises(rt, PrevLabel(pt))
        /\ Lt(price[LastLabel(pt) + 1], price[PrevLabel(pt) + 1])
        /\ Gt(Corresponding(self.smoothed_rsi, rt, LastLabel(pt)),
              Corresponding(self.smoothed_rsi, rt, PrevLabel(pt)))

\* C16: in every record get_divergence returns the two flags are never both
\* true; when the bearish condition holds the record is bearish-only, also
\* when the bullish condition holds on the same window; the description is
\* that of the single flag set, or 'No divergence detected'.
C16_DivergenceFlagsExclusive ==
    (last.op = "RSI.get_divergence" /\ last.out.kind = "record") =>
        LET bear == last.out.bearish_divergence
            bull == last.out.bullish_divergence
        IN  /\ ~(bear /\ bull)
            /\ BearishCondition(rsi, df, last.lookback, last.peak_window) =>
                    (bear /\ ~bull)
            /\ last.out.description =
                    IF bear THEN "Bearish divergence"
                    ELSE IF bull THEN "Bullish divergence"
                    ELSE "No divergence detected"

C16_Witness ==
    /\ last.op = "RSI.get_divergence"
    /\ last.out.kind = "record"
    /\ BearishCondition(rsi, df, last.lookback, last.peak_window)
    /\ BullishCondition(rsi, df, last.lookback, last.peak_window)
    /\ last.out.bearish_divergence

(***************************************************************************)
(* Claims about MACross.analyze.                                           *)
(***************************************************************************)
\* how many of fast > slow, slow > long and price > long hold
Votes(price, values) ==
      (IF Gt(values.ma_fast, values.ma_slow) THEN 1 ELSE 0)
    + (IF Gt(values.ma_slow, values.ma_long) THEN 1 ELSE 0)
    + (IF Gt(price, values.ma_long) THEN 1 ELSE 0)

ScoreValues == {Num(-10, 10), Num(-4, 10), Num(-2, 10), Num(2, 10), Num(4, 10), Num(10, 10)}

\* C17: the weighted score is one of -1, -0.4, -0.2, 0.2, 0.4, 1 and never
\* 0, and the signal is the majority vote of fast > slow, slow > long and
\* price > long: STRONG_BULLISH for three, BULLISH_BIAS for two,
\* BEARISH_BIAS for one and STRONG_BEARISH for none.
C17_ScoreIsMajorityVote ==
    last.op = "MACross.analyze" =>
        LET ms == last.out.market_structure
            votes == Votes(Int2Val(last.price), last.out.values)
        IN  /\ ms.weighted_score \in ScoreValues
            /\ ms.weighted_score # Int2Val(0)
            /\ ms.signal = IF votes = 3 THEN "STRONG_BULLISH"
                           ELSE IF votes = 2 THEN "BULLISH_BIAS"
                           ELSE IF votes = 1 THEN "BEARISH_BIAS"
                           ELSE "STRONG_BEARISH"

\* two of the three comparisons hold, price > long among them
C17_Witness ==
    /\ last.op = "MACross.analyze"
    /\ Votes(Int2Val(last.price), last.out.values) = 2
    /\ last.out.market_structure.weighted_score = Num(4, 10)
    /\ last.out.market_structure.signal = "BULLISH_BIAS"

\* C18: with ma_type SMA and fewer bars than the long period, ma_long is
\* NaN, analyze returns without raising, market_structure is STRONG_BEARISH
\* or BEARISH_BIAS and the long-term pair's cross_status is BEARISH, for
\* every price and close series.
C18_ShortSeriesReadsBearish ==
    (/\ last.op = "MACross.analyze"
     /\ ma_cross.ma_type = "SMA"
     /\ Len(df.close) < ma_cross.long_ma_period) =>
        /\ ~last.raised
        /\ last.out.values.ma_long = NaN
        /\ last.out.market_structure.signal \in {"STRONG_BEARISH", "BEARISH_BIAS"}
        /\ last.out.set2_long_term.cross_status = "BEARISH"

\* the fast average is above the slow one and the long one is missing
C18_Witness ==
    /\ last.op = "MACross.analyze"
    /\ ma_cross.ma_type = "SMA"
    /\ Len(df.close) < ma_cross.long_ma_period
    /\ Gt(last.out.values.ma_fast, last.out.values.ma_slow)
    /\ last.out.market_structure.signal = "BEARISH_BIAS"

=============================================================================
